---- MODULE Spec2Model ----
(***************************************************************************)
(* Model of the ivoclar_offline scraper (src/src/lib.rs, bin/scrape.rs):  *)
(* the URL normalizer, the shared registry of downloaded paths, the asset *)
(* fetcher download_asset and the per-page orchestrator scrape_page.      *)
(* Strings are sequences of one-character strings so that the prefix and  *)
(* split operations of the code are computed, not assumed.                *)
(***************************************************************************)
EXTENDS Integers, Sequences, FiniteSets, TLC

\* ------------------------------------------------------------------ bounds
\* number of scrape_page calls made on one session
MaxPages == 2
\* largest number of distinct candidate URLs one rendered page exposes
MaxCands == 2

Frames == 1..MaxPages

\* ------------------------------------------------------- string primitives
\* str::starts_with
StartsWith(s, pre) ==
  Len(s) >= Len(pre) /\ SubSeq(s, 1, Len(pre)) = pre

FindNothing(s, ch) == 0

\* str::find(char): index of the first occurrence, 0 when absent
Find(s, ch) ==
  IF \E i \in 1..Len(s) : s[i] = ch
  THEN CHOOSE i \in 1..Len(s) : s[i] = ch /\ \A j \in 1..(i - 1) : s[j] # ch
  ELSE 0

SplitFirstKeepsAll(s, ch) == s

\* s.split(ch).next().unwrap_or(s): the text before the first ch
SplitFirst(s, ch) ==
  IF Find(s, ch) = 0 THEN s ELSE SubSeq(s, 1, Find(s, ch) - 1)

\* str::trim_start_matches(char)
RECURSIVE TrimStartMatches(_, _)
TrimStartMatches(s, ch) ==
  IF Len(s) > 0 /\ s[1] = ch THEN TrimStartMatches(Tail(s), ch) ELSE s

\* Option<String>
None == << >>
Some(p) == << p >>

StripPrefixNever(s, pre) == None

\* str::strip_prefix
StripPrefix(s, pre) ==
  IF StartsWith(s, pre) THEN Some(SubSeq(s, Len(pre) + 1, Len(s))) ELSE None

\* ------------------------------------------------------------ string data
HttpScheme == <<"h","t","t","p",":","/","/">>
HttpsScheme == <<"h","t","t","p","s",":","/","/">>
HttpText == <<"h","t","t","p">>
DataScheme == <<"d","a","t","a",":">>
BlobScheme == <<"b","l","o","b",":">>
SlashSlash == <<"/","/">>
IndexHtml == <<"/","i","n","d","e","x",".","h","t","m","l">>

\* the site the session is rooted at ("https://s")
WEBSITE == <<"h","t","t","p","s",":","/","/","s">>

\* candidate URLs the rendered pages may expose
UrlRootA == <<"/","a">>
UrlAbsA == <<"h","t","t","p","s",":","/","/","s","/","a">>
UrlData == <<"d","a","t","a",":","x">>
UrlRootP == <<"/","p">>
URLS == {UrlRootA, UrlAbsA, UrlData, UrlRootP}

\* page paths the caller may ask for
PAGES == {<<"p">>, <<"q">>}

\* ------------------------------------------------------------- normalizer
normalize_url_path(url, website) ==
  LET u1 == SplitFirst(url, "?")
      u2 == SplitFirst(u1, "#")
  IN IF u2 = << >> \/ StartsWith(u2, DataScheme) \/ StartsWith(u2, BlobScheme)
     THEN None
     ELSE LET path ==
                IF StartsWith(u2, HttpScheme) \/ StartsWith(u2, HttpsScheme)
                THEN IF StripPrefix(u2, website) = None
                     THEN None
                     ELSE Some(TrimStartMatches(StripPrefix(u2, website)[1], "/"))
                ELSE IF StripPrefix(u2, SlashSlash) # None
                THEN LET stripped == StripPrefix(u2, SlashSlash)[1]
                         idx == Find(stripped, "/")
                     IN IF idx = 0
                        THEN None
                        ELSE Some(TrimStartMatches(
                                    SubSeq(stripped, idx, Len(stripped)), "/"))
                ELSE Some(TrimStartMatches(u2, "/"))
          IN IF path # None /\ path[1] # << >> THEN path ELSE None

\* the URL download_asset requests
full_url(url, website) ==
  IF StartsWith(url, HttpText)
  THEN url
  ELSE IF StripPrefix(url, SlashSlash) # None
  THEN HttpsScheme \o StripPrefix(url, SlashSlash)[1]
  ELSE website \o <<"/">> \o TrimStartMatches(url, "/")

\* canonical paths of the candidate universe
PATHS == { normalize_url_path(u, WEBSITE)[1] :
             u \in { v \in URLS : normalize_url_path(v, WEBSITE) # None } }


\* ------------------------------------------------------------ file system
\* the directories create_dir_all(d) has to find or make: d and its ancestors
DirChain(d) ==
  { SubSeq(d, 1, i - 1) : i \in { j \in 1..Len(d) : d[j] = "/" } } \cup {d}

\* PathBuf::parent of page/<path>, relative to page/ (<< >> is page/ itself)
Parent(path) ==
  IF \E i \in 1..Len(path) : path[i] = "/"
  THEN LET last == CHOOSE i \in 1..Len(path) :
                     path[i] = "/" /\ \A j \in (i + 1)..Len(path) : path[j] # "/"
       IN SubSeq(path, 1, last - 1)
  ELSE << >>

MarkupPath(page) == page \o IndexHtml

FILEPATHS == PATHS \cup { MarkupPath(pg) : pg \in PAGES }

\* ------------------------------------------------------------------ state
VARIABLES
  downloaded,  \* Scraper.downloaded: the registry, a set of canonical paths
  files,       \* what lies at each path under page/: none, asset, partial, markup
  dirs,        \* the directories that exist under page/
  fr,          \* one record per scrape_page call: its position and locals
  session,     \* "open" until finish() consumes the Scraper
  total,       \* what finish() returned (-1: nothing yet, or Err)
  reqs,        \* history: network requests issued, per canonical path
  trues,       \* history: download_asset calls that returned true, per path
  written,     \* history: paths whose bytes a download_asset call wrote in full
  fate,        \* per candidate URL, what its download can come to: ok, fail, any
  nz           \* one direct call of the normalizer on given inputs, and its results

vars == <<downloaded, files, dirs, fr, session, total, reqs, trues, written,
          fate, nz>>

NoUrl == << >>

\* a scrape_page call that has not begun: no locals, no result
IdleFrame ==
  [pc |-> "NotStarted", page |-> << >>, cands |-> {}, urls |-> {}, start |-> {},
   count |-> 0,
   url |-> NoUrl, local_path |-> << >>, full_url |-> << >>, status |-> "none",
   steps |-> << >>, ret |-> -1]

\* no direct call of the normalizer is under way
IdleNorm ==
  [pc |-> "idle", url |-> << >>, site |-> << >>, local_path |-> None,
   full_url |-> << >>, again |-> None]

\* the network and the disk may answer any call in any way
AnyFate == [u \in URLS |-> "any"]

\* Scraper::new: an empty registry; nothing fetched or written yet
NewSession ==
  /\ downloaded = {}
  /\ files = [p \in FILEPATHS |-> "none"]
  /\ dirs = {}
  /\ fr = [f \in Frames |-> IdleFrame]
  /\ session = "open"
  /\ total = -1
  /\ reqs = [p \in PATHS |-> 0]
  /\ trues = [p \in PATHS |-> 0]
  /\ written = {}

Init ==
  /\ NewSession
  /\ fate = AnyFate
  /\ nz = IdleNorm

Returned(f) == fr[f].pc \in {"Done", "Err"}

\* futures of scrape_page(&self) polled together (join!): the next one may
\* start as soon as the one before it has started
ConcurrentCaller(f) == IF f = 1 THEN TRUE ELSE fr[f - 1].pc # "NotStarted"

CallerDoesNotAwait(f) == IF f = 1 THEN TRUE ELSE fr[f - 1].pc # "NotStarted"

\* main awaits each scrape_page before it calls the next: in scrape_page
\* calls made one after the other, a call begins when the one before returned
SequentialCaller(f) == IF f = 1 THEN TRUE ELSE Returned(f - 1)

\* ------------------------------------------------------------ scrape_page
Begin(f, path) ==
  /\ session = "open"
  /\ fr[f].pc = "NotStarted"
  /\ fr' = [fr EXCEPT ![f].pc = "Navigate", ![f].page = path,
                      ![f].steps = <<"Navigate">>]
  /\ UNCHANGED <<downloaded, files, dirs, session, total, reqs, trues, written, fate, nz>>

StartPage(f) ==
  /\ SequentialCaller(f)
  /\ \E path \in PAGES : Begin(f, path)

StartPageConcurrently(f) ==
  /\ ConcurrentCaller(f)
  /\ \E path \in PAGES : Begin(f, path)

\* scrape_page returns Err through `?`: its locals are dropped
PageErr(f) ==
  fr' = [fr EXCEPT ![f] = [IdleFrame EXCEPT !.pc = "Err", !.steps = fr[f].steps]]

PageOkReturnsTotal(f) ==
  fr' = [fr EXCEPT ![f] = [IdleFrame EXCEPT !.pc = "Done",
                                            !.ret = Cardinality(downloaded),
                                            !.steps = Append(fr[f].steps, "Done")]]

\* scrape_page returns Ok(downloaded_count)
PageOk(f) ==
  fr' = [fr EXCEPT ![f] = [IdleFrame EXCEPT !.pc = "Done", !.ret = fr[f].count,
                                            !.steps = Append(fr[f].steps, "Done")]]

\* driver.goto(...).await?
Navigate(f) ==
  /\ fr[f].pc = "Navigate"
  /\ \E ok \in BOOLEAN :
       IF ok
       THEN fr' = [fr EXCEPT ![f].pc = "Wait", ![f].steps = Append(@, "Wait")]
       ELSE PageErr(f)
  /\ UNCHANGED <<downloaded, files, dirs, session, total, reqs, trues, written, fate, nz>>

\* tokio::time::sleep(2 s)
WaitForHydration(f) ==
  /\ fr[f].pc = "Wait"
  /\ fr' = [fr EXCEPT ![f].pc = "Collect", ![f].steps = Append(@, "Collect")]
  /\ UNCHANGED <<downloaded, files, dirs, session, total, reqs, trues, written, fate, nz>>

\* ------------------------------------------------- collect_resource_urls
\* what one sub-source of the rendered page can give: an error of the
\* render engine, a value that does not parse, or a list of URLs
SrcSets == { S \in SUBSET URLS : Cardinality(S) <= MaxCands }

\* perf_script drops data: and blob: entries itself
PerfFiltered(S) ==
  { u \in S : ~StartsWith(u, DataScheme) /\ ~StartsWith(u, BlobScheme) }

\* bg_script drops data: URIs itself
BgFiltered(S) == { u \in S : ~StartsWith(u, DataScheme) }

\* driver.execute(perf_script): an error, JSON that is no list of strings,
\* or the list
PerfOutcomes ==
  {[res |-> "err", urls |-> {}], [res |-> "unparsable", urls |-> {}]}
    \cup { [res |-> "ok", urls |-> PerfFiltered(S)] : S \in SrcSets }

BgOutcomes ==
  {[res |-> "err", urls |-> {}], [res |-> "unparsable", urls |-> {}]}
    \cup { [res |-> "ok", urls |-> BgFiltered(S)] : S \in SrcSets }

\* value.split(','): the parts of a srcset value
RECURSIVE SplitAll(_, _)
SplitAll(s, ch) ==
  IF Find(s, ch) = 0
  THEN <<s>>
  ELSE <<SubSeq(s, 1, Find(s, ch) - 1)>>
         \o SplitAll(SubSeq(s, Find(s, ch) + 1, Len(s)), ch)

\* part.split_whitespace().next(): the URL before the descriptor
FirstToken(part) ==
  LET t == TrimStartMatches(part, " ")
  IN IF t = << >> THEN None ELSE Some(SplitFirst(t, " "))

\* the URLs inserted for one srcset attribute value
SrcsetUrls(value) ==
  LET parts == SplitAll(value, ",")
  IN { FirstToken(parts[i])[1] :
         i \in { j \in 1..Len(parts) : FirstToken(parts[j]) # None } }

\* srcset values a <source> element may carry: none, or "/a 1x, /p 2x,"
SrcsetValue == <<"/","a"," ","1","x",","," ","/","p"," ","2","x",",">>
SRCSETS == {<< >>, SrcsetValue}

\* the DOM scan: find_all failing for every selector, or the attribute
\* values found (plain attributes as they are, srcset values split)
DomOutcomes ==
  {[res |-> "err", urls |-> {}]}
    \cup { [res |-> "ok", urls |-> S \cup SrcsetUrls(v)] : S \in SrcSets, v \in SRCSETS }

Got(src) == IF src.res = "ok" THEN src.urls ELSE {}

\* Result<Vec<String>, _>: the union of the three sub-sources; only the
\* resource-timing script's error is propagated with `?`
collect_resource_urls(perf, dom, bg) ==
  IF perf.res = "err"
  THEN [ok |-> FALSE, urls |-> {}]
  ELSE [ok |-> TRUE, urls |-> Got(perf) \cup Got(dom) \cup Got(bg)]

Collect(f) ==
  /\ fr[f].pc = "Collect"
  /\ \E perf \in PerfOutcomes, dom \in DomOutcomes, bg \in BgOutcomes :
       LET r == collect_resource_urls(perf, dom, bg)
       IN /\ Cardinality(r.urls) <= MaxCands
          /\ IF r.ok
             THEN fr' = [fr EXCEPT ![f].pc = "FetchAll", ![f].cands = r.urls,
                                   ![f].urls = r.urls, ![f].start = downloaded,
                                   ![f].steps = Append(@, "FetchAll")]
             ELSE PageErr(f)
  /\ UNCHANGED <<downloaded, files, dirs, session, total, reqs, trues, written, fate, nz>>

\* --------------------------------------------------------- download_asset
AlreadyDownloadedNever(p) == FALSE

\* the registry lookup made under the lock before anything is fetched
AlreadyDownloaded(p) == p \in downloaded

RegistryClaimedAtCheck(p) == downloaded \cup {p}

\* the registry when the lock of the lookup is released: the lookup only reads
RegistryAfterCheck(p) == downloaded

AbortPageOnFailure(f) == PageErr(f)

\* download_asset returned false to the loop of scrape_page
ReturnFalse(f) ==
  fr' = [fr EXCEPT ![f].pc = "FetchAll", ![f].urls = @ \ {fr[f].url},
                   ![f].url = NoUrl, ![f].local_path = << >>,
                   ![f].full_url = << >>, ![f].status = "none"]

\* download_asset returned true: downloaded_count += 1
ReturnTrue(f) ==
  fr' = [fr EXCEPT ![f].pc = "FetchAll", ![f].urls = @ \ {fr[f].url},
                   ![f].url = NoUrl, ![f].local_path = << >>,
                   ![f].full_url = << >>, ![f].status = "none",
                   ![f].count = @ + 1]

\* the loop takes the next URL and calls download_asset: normalize, look
\* the path up in the registry, build the URL to request
CallDownloadAsset(f) ==
  /\ fr[f].pc = "FetchAll"
  /\ \E url \in fr[f].urls :
       LET lp == normalize_url_path(url, WEBSITE)
       IN IF lp = None \/ AlreadyDownloaded(lp[1])
          THEN /\ fr' = [fr EXCEPT ![f].urls = @ \ {url}]
               /\ UNCHANGED downloaded
          ELSE /\ fr' = [fr EXCEPT ![f].pc = "Send", ![f].url = url,
                                   ![f].local_path = lp[1],
                                   ![f].full_url = full_url(url, WEBSITE)]
               /\ downloaded' = RegistryAfterCheck(lp[1])
  /\ UNCHANGED <<files, dirs, session, total, reqs, trues, written, fate, nz>>

\* what client.get(..).send().await and response.bytes().await can give:
\* send is Err on a connection error and Ok for a response of any status
FetchOutcomes ==
  {[send |-> "conn_err", body |-> "none"]}
    \cup { [send |-> st, body |-> b] : st \in {"ok", "bad"}, b \in {"ok", "err"} }

\* if let Ok(response) = send().await && let Ok(bytes) = response.bytes().await
FetchSucceeds(out) == out.send # "conn_err" /\ out.body = "ok"

\* the download of URL u may fail / may succeed as far as its fate goes
MayFail(u) == fate[u] # "ok"
MaySucceed(u) == fate[u] # "fail"

\* the request is made and its body read
Fetch(f) ==
  /\ fr[f].pc = "Send"
  /\ reqs' = [reqs EXCEPT ![fr[f].local_path] = @ + 1]
  /\ \E out \in FetchOutcomes :
       IF FetchSucceeds(out)
       THEN fr' = [fr EXCEPT ![f].pc = "MkDir", ![f].status = out.send]
       ELSE MayFail(fr[f].url) /\ ReturnFalse(f)
  /\ UNCHANGED <<downloaded, files, dirs, session, total, trues, written, fate, nz>>

\* create_dir_all cannot succeed when a file lies where a directory must be
CanMkdir(d) == \A x \in DirChain(d) : x \in FILEPATHS => files[x] = "none"

\* fs::create_dir_all(parent).await.is_ok()
MkDir(f) ==
  /\ fr[f].pc = "MkDir"
  /\ \E ok \in BOOLEAN :
       IF ok /\ CanMkdir(Parent(fr[f].local_path))
       THEN /\ dirs' = dirs \cup DirChain(Parent(fr[f].local_path))
            /\ fr' = [fr EXCEPT ![f].pc = "Write"]
       ELSE MayFail(fr[f].url) /\ ReturnFalse(f) /\ UNCHANGED dirs
  /\ UNCHANGED <<downloaded, files, session, total, reqs, trues, written, fate, nz>>

WriteResultIgnored(res) == TRUE

\* .is_ok() on the result of fs::write
WriteOk(res) == res = "ok"

\* what fs::write does at path p: it cannot open a directory; a failed
\* write leaves the path as it was or, once the file was opened, truncated
\* or part-written
WriteResult(out, p) == IF p \in dirs THEN "open_err" ELSE out

\* fs::write(&file_path, &bytes).await.is_ok()
Write(f) ==
  /\ fr[f].pc = "Write"
  /\ LET p == fr[f].local_path
     IN \E out \in {"ok", "open_err", "write_err"} :
          LET res == WriteResult(out, p)
          IN /\ files' = IF res = "ok" THEN [files EXCEPT ![p] = "asset"]
                         ELSE IF res = "write_err" THEN [files EXCEPT ![p] = "partial"]
                         ELSE files
             /\ written' = IF res = "ok" THEN written \cup {p} ELSE written
             /\ IF res = "ok" THEN MaySucceed(fr[f].url) ELSE MayFail(fr[f].url)
             /\ IF WriteOk(res)
                THEN fr' = [fr EXCEPT ![f].pc = "Insert"]
                ELSE ReturnFalse(f)
  /\ UNCHANGED <<downloaded, dirs, session, total, reqs, trues, fate, nz>>

RegistryReplaced(p) == {p}

\* urls.insert(local_path) on the HashSet
RegistryInsert(p) == downloaded \cup {p}

\* lock; urls.insert(local_path); return true
Insert(f) ==
  /\ fr[f].pc = "Insert"
  /\ downloaded' = RegistryInsert(fr[f].local_path)
  /\ trues' = [trues EXCEPT ![fr[f].local_path] = @ + 1]
  /\ ReturnTrue(f)
  /\ UNCHANGED <<files, dirs, session, total, reqs, written, fate, nz>>

\* ------------------------------------------------- scrape_page, the markup
\* the for loop over urls is exhausted
LoopDone(f) == fr[f].urls = {}

EndFetchAll(f) ==
  /\ fr[f].pc = "FetchAll"
  /\ LoopDone(f)
  /\ fr' = [fr EXCEPT ![f].pc = "MarkupDir", ![f].steps = Append(@, "PersistMarkup")]
  /\ UNCHANGED <<downloaded, files, dirs, session, total, reqs, trues, written, fate, nz>>

\* fs::create_dir_all(format!("page/{path}")).await?
MarkupDir(f) ==
  /\ fr[f].pc = "MarkupDir"
  /\ \E ok \in BOOLEAN :
       IF ok /\ CanMkdir(fr[f].page)
       THEN /\ dirs' = dirs \cup DirChain(fr[f].page) \cup {<< >>}
            /\ fr' = [fr EXCEPT ![f].pc = "MarkupWrite"]
       ELSE PageErr(f) /\ UNCHANGED dirs
  /\ UNCHANGED <<downloaded, files, session, total, reqs, trues, written, fate, nz>>

\* self.driver.source().await?; fs::write(page/{path}/index.html).await?;
\* Ok(downloaded_count)
MarkupWrite(f) ==
  /\ fr[f].pc = "MarkupWrite"
  /\ LET m == MarkupPath(fr[f].page)
     IN \E out \in {"ok", "source_err", "open_err", "write_err"} :
          LET res == IF out = "source_err" THEN out ELSE WriteResult(out, m)
          IN /\ files' = IF res = "ok" THEN [files EXCEPT ![m] = "markup"]
                         ELSE IF res = "write_err" THEN [files EXCEPT ![m] = "partial"]
                         ELSE files
             /\ IF res = "ok" THEN PageOk(f) ELSE PageErr(f)
  /\ UNCHANGED <<downloaded, dirs, session, total, reqs, trues, written, fate, nz>>

\* ------------------------------------------------ total_assets and finish
total_assets == Cardinality(downloaded)

\* finish(self): no scrape_page borrows the Scraper any more
Finish ==
  /\ session = "open"
  /\ \A f \in Frames : fr[f].pc \in {"NotStarted", "Done", "Err"}
  /\ session' = "finished"
  /\ \E quit_ok \in BOOLEAN : total' = IF quit_ok THEN total_assets ELSE -1
  /\ UNCHANGED <<downloaded, files, dirs, fr, reqs, trues, written, fate, nz>>

\* ---------------------------------------------------------- specifications
PageStep(f) ==
  \/ Navigate(f)
  \/ WaitForHydration(f)
  \/ Collect(f)
  \/ CallDownloadAsset(f)
  \/ Fetch(f)
  \/ MkDir(f)
  \/ Write(f)
  \/ Insert(f)
  \/ EndFetchAll(f)
  \/ MarkupDir(f)
  \/ MarkupWrite(f)

\* the pages of a session one after the other, as main calls them
Next ==
  \/ \E f \in Frames : StartPage(f)
  \/ \E f \in Frames : PageStep(f)
  \/ Finish

Spec == Init /\ [][Next]_vars

\* scrape_page calls of one session polled concurrently
NextConc ==
  \/ \E f \in Frames : StartPageConcurrently(f)
  \/ \E f \in Frames : PageStep(f)
  \/ Finish

SpecConc == Init /\ [][NextConc]_vars


\* ------------------------------------------------------------------ claims
PathA == <<"a">>
PathP == <<"p">>
PageP == <<"p">>
PageQ == <<"q">>

\* a download_asset call of frame f is between its registry check and its return
InCall(f) == fr[f].pc \in {"Send", "MkDir", "Write", "Insert"}

\* frame f is inside scrape_page
Active(f) == fr[f].pc \notin {"NotStarted", "Done", "Err"}

\* the download_asset call of frame f returns false in this step after it
\* got past the registry check (fetch, body, directory or write failed)
CallFails(f) == fr[f].pc \in {"Send", "MkDir", "Write"} /\ fr'[f].pc = "FetchAll"

\* a download_asset call of frame f gets past the registry check in this step
CallProceeds(f) == fr[f].pc = "FetchAll" /\ fr'[f].pc = "Send"

\* a download_asset call of frame f for url u returns false at once
CallSkips(f, u) ==
  fr[f].pc = "FetchAll" /\ fr'[f].pc = "FetchAll" /\ u \in fr[f].urls /\ u \notin fr'[f].urls

FullSteps == <<"Navigate", "Wait", "Collect", "FetchAll", "PersistMarkup", "Done">>

\* C1: among download_asset calls for one canonical path that run
\* concurrently in one session, never more than one returns true.
C1_AtMostOneWinner == \A p \in PATHS : trues[p] <= 1

\* C2: in a session of scrape_page calls made one after the other, once a
\* download_asset call for path p has returned true no later call gets past
\* the registry check for p (so it makes no request and writes nothing),
\* and at most one call per path returns true.
C2_NoRedownload ==
  /\ \A p \in PATHS : trues[p] <= 1
  /\ \A f \in Frames : InCall(f) => trues[fr[f].local_path] = 0
  /\ \A p \in PATHS : trues[p] = 1 => p \in downloaded

\* C2 witness: both spellings of path a were candidates of one page, both
\* calls have returned, one was counted and one request was made.
C2_Witness ==
  \E f \in Frames :
    /\ fr[f].cands = {UrlRootA, UrlAbsA}
    /\ fr[f].urls = {}
    /\ fr[f].pc = "FetchAll"
    /\ fr[f].count = 1
    /\ trues[PathA] = 1
    /\ reqs[PathA] = 1

C4_RegistryIffWritten ==
  /\ \A p \in downloaded : p \in written
  /\ \A p \in written :
       \/ p \in downloaded
       \/ \E f \in Frames : fr[f].pc = "Insert" /\ fr[f].local_path = p

\* C4 witness: a path was written and recorded and its call has returned,
\* while another path was requested and is neither written nor recorded.
C4_Witness ==
  /\ PathA \in downloaded
  /\ PathA \in written
  /\ reqs[PathP] >= 1
  /\ PathP \notin written
  /\ PathP \notin downloaded
  /\ \A f \in Frames : ~InCall(f)

C6_NonSuccessIsFailure ==
  [][\A f \in Frames :
       fr[f].status = "bad" =>
         /\ files' = files
         /\ downloaded' = downloaded
         /\ fr'[f].count = fr[f].count]_vars

\* C7: collect_resource_urls returns Ok whichever of its sub-sources fails:
\* the Collect step never ends scrape_page with Err.
C7_CollectToleratesFailure ==
  [][\A f \in Frames : fr[f].pc = "Collect" => fr'[f].pc \in {"Collect", "FetchAll"}]_vars


\* C8: no outcome of a download_asset call ends scrape_page: from the loop
\* and from inside a call the page never goes to Err, the markup steps begin
\* only when every candidate has been attempted, the count grows by one
\* exactly when a call returns true, Ok carries that count with index.html
\* written, and neither a page ending in Err nor the start of the next page
\* changes the registry.
C8_AssetFailuresNeverAbort ==
  /\ [](\A f \in Frames :
          fr[f].pc \in {"MarkupDir", "MarkupWrite"} =>
            fr[f].urls = {} /\ fr[f].url = NoUrl)
  /\ [][\A f \in Frames :
          /\ fr[f].pc \in {"FetchAll", "Send", "MkDir", "Write", "Insert"} =>
               fr'[f].pc \in {"FetchAll", "Send", "MkDir", "Write", "Insert", "MarkupDir"}
          /\ fr[f].pc = "Insert" => fr'[f].count = fr[f].count + 1
          /\ (Active(f) /\ fr[f].pc # "Insert" /\ fr'[f].pc \notin {"Done", "Err"}) =>
               fr'[f].count = fr[f].count
          /\ (fr[f].pc # "Done" /\ fr'[f].pc = "Done") =>
               /\ fr'[f].ret = fr[f].count
               /\ files'[MarkupPath(fr[f].page)] = "markup"
          /\ (fr[f].pc # "Err" /\ fr'[f].pc = "Err") => downloaded' = downloaded
          /\ (fr[f].pc = "NotStarted" /\ fr'[f].pc # "NotStarted") =>
               downloaded' = downloaded]_vars

\* C8 witness: the first page ended in Err after an asset was recorded; the
\* second page then had a failed call for path a, a successful one, and
\* returned Ok(1) with both paths in the registry.
C8_Witness ==
  /\ fr[1].pc = "Err"
  /\ fr[2].pc = "Done"
  /\ fr[2].ret = 1
  /\ reqs[PathA] = 2
  /\ trues[PathA] = 1
  /\ downloaded = {PathA, PathP}

\* every URL of S is rejected by the normalizer
AllRejected(S) == \A u \in S : normalize_url_path(u, WEBSITE) = None

\* C9: while scrape_page works on a page whose candidate set is empty or
\* holds only rejected URLs, no request is made, no call gets past the
\* check, the registry does not change, and when the page returns Ok it
\* returns 0 with index.html written.
C9_NoCandidatesPage ==
  [][\A f \in Frames :
       (fr[f].pc \in {"FetchAll", "Send", "MkDir", "Write", "Insert",
                      "MarkupDir", "MarkupWrite"}
          /\ AllRejected(fr[f].cands)) =>
         /\ downloaded' = downloaded
         /\ reqs' = reqs
         /\ ~InCall(f)
         /\ fr'[f].pc # "Send"
         /\ fr[f].count = 0
         /\ fr'[f].pc = "Done" =>
              /\ fr'[f].ret = 0
              /\ files'[MarkupPath(fr[f].page)] = "markup"]_vars

\* C9 witness: a page has returned Ok(0) with its index.html written while
\* no request was ever made and the registry is empty, so every candidate
\* it had, if any, was rejected.
C9_Witness ==
  /\ fr[1].pc = "Done"
  /\ fr[1].ret = 0
  /\ downloaded = {}
  /\ \A p \in PATHS : reqs[p] = 0
  /\ files[MarkupPath(PageQ)] = "markup"

IsPrefix(s, t) == Len(s) <= Len(t) /\ SubSeq(t, 1, Len(s)) = s

\* the step of the page state machine a position of scrape_page belongs to
StepOf(pc) ==
  IF pc \in {"Send", "MkDir", "Write", "Insert"} THEN "FetchAll"
  ELSE IF pc \in {"MarkupDir", "MarkupWrite"} THEN "PersistMarkup"
  ELSE pc

\* C10: the steps a scrape_page call has entered are an initial part of
\* Navigate, Wait, Collect, FetchAll, PersistMarkup, Done, the call is in
\* the last of them, and a call that returned Ok entered all six; the markup
\* steps begin only when every download_asset call of the page has
\* returned; and a page is begun only when the page before it has returned.
C10_StepsInOrder ==
  /\ \A f \in Frames : IsPrefix(fr[f].steps, FullSteps)
  /\ \A f \in Frames :
       Active(f) => fr[f].steps[Len(fr[f].steps)] = StepOf(fr[f].pc)
  /\ \A f \in Frames : fr[f].pc = "Done" => fr[f].steps = FullSteps
  /\ \A f \in Frames : fr[f].pc = "NotStarted" => fr[f].steps = << >>
  /\ \A f \in Frames :
       fr[f].pc \in {"MarkupDir", "MarkupWrite"} =>
         fr[f].urls = {} /\ fr[f].url = NoUrl
  /\ \A f, g \in Frames :
       (f < g /\ fr[g].pc # "NotStarted") => Returned(f)

\* C10 witness: two pages of one session both went through all six steps,
\* the second with two candidates of which one was downloaded.
C10_Witness ==
  /\ fr[1].steps = FullSteps
  /\ fr[2].steps = FullSteps
  /\ fr[2].ret = 1
  /\ reqs[PathA] = 2

\* the number of download_asset calls that have returned true, over paths S
RECURSIVE SumTrues(_)
SumTrues(S) ==
  IF S = {} THEN 0
  ELSE LET p == CHOOSE x \in S : TRUE IN trues[p] + SumTrues(S \ {p})

\* the sum of the counts returned by the scrape_page calls F that returned Ok
RECURSIVE SumRet(_)
SumRet(F) ==
  IF F = {} THEN 0
  ELSE LET f == CHOOSE x \in F : TRUE
       IN (IF fr[f].pc = "Done" THEN fr[f].ret ELSE 0) + SumRet(F \ {f})

\* C11: the registry is empty until a call has returned true; its size, which
\* total_assets and finish report, is at every moment the number of
\* download_asset calls that have returned true; and when every scrape_page
\* call made has returned Ok and none is running, it is the sum of the
\* counts they returned.
C11_TotalIsTruesCount ==
  /\ (\A f \in Frames : fr[f].pc = "NotStarted") => downloaded = {}
  /\ total_assets = SumTrues(PATHS)
  /\ (session = "finished" /\ total # -1) => total = Cardinality(downloaded)
  /\ (\A f \in Frames : fr[f].pc \in {"NotStarted", "Done"}) =>
       total_assets = SumRet(Frames)

\* ------------------------------------------- direct calls of the normalizer
\* largest number of tokens an input URL is put together from
MaxToks == 4

\* a second site, differing from WEBSITE in its scheme only ("http://s")
SiteHttp == <<"h","t","t","p",":","/","/","s">>

\* the sites a session may be rooted at: scheme and host
SITES == {WEBSITE, SiteHttp}

\* the pieces input URLs are put together from
TOKENS ==
  {<<"/">>, SlashSlash, <<"?">>, <<"#">>, <<"a">>, <<"s">>, <<".", ".">>,
   HttpText, DataScheme, BlobScheme, WEBSITE, SiteHttp}

RECURSIVE Flatten(_)
Flatten(ts) == IF ts = << >> THEN << >> ELSE Head(ts) \o Flatten(Tail(ts))

\* the input URLs: every string of at most MaxToks tokens
NURLS == { Flatten(ts) : ts \in UNION { [1..n -> TOKENS] : n \in 0..MaxToks } }

\* normalize_url_path is about to be called on a URL and a site
InitNorm ==
  /\ NewSession
  /\ fate = AnyFate
  /\ nz \in { [IdleNorm EXCEPT !.pc = "called", !.url = u, !.site = s] :
                u \in NURLS, s \in SITES }

\* let Some(local_path) = normalize_url_path(url, website) else { return false }
NormalizeCall ==
  /\ nz.pc = "called"
  /\ LET lp == normalize_url_path(nz.url, nz.site)
     IN nz' = [nz EXCEPT !.local_path = lp,
                         !.pc = IF lp = None THEN "rejected" ELSE "accepted"]
  /\ UNCHANGED <<downloaded, files, dirs, fr, session, total, reqs, trues, written, fate>>

\* let full_url = ... in download_asset, for a URL the normalizer accepted
BuildFullUrl ==
  /\ nz.pc = "accepted"
  /\ nz' = [nz EXCEPT !.full_url = full_url(nz.url, nz.site), !.pc = "built"]
  /\ UNCHANGED <<downloaded, files, dirs, fr, session, total, reqs, trues, written, fate>>

\* normalize_url_path called on the path an earlier call returned
NormalizeAgain ==
  /\ nz.pc = "built"
  /\ nz' = [nz EXCEPT !.again = normalize_url_path(nz.local_path[1], nz.site),
                      !.pc = "again"]
  /\ UNCHANGED <<downloaded, files, dirs, fr, session, total, reqs, trues, written, fate>>

NextNorm ==
  \/ NormalizeCall
  \/ BuildFullUrl
  \/ NormalizeAgain

SpecNorm == InitNorm /\ [][NextNorm]_vars

\* the call of the normalizer has returned
Normalized == nz.pc \in {"rejected", "accepted", "built", "again"}

\* ------------------------------------------------- claims on the normalizer
Has(s, ch) == \E i \in 1..Len(s) : s[i] = ch

HasScheme(s) ==
  \/ StartsWith(s, HttpScheme)
  \/ StartsWith(s, HttpsScheme)
  \/ StartsWith(s, DataScheme)
  \/ StartsWith(s, BlobScheme)

\* P is a relative path: it is not empty, has no leading slash, no query
\* and no fragment, and does not begin with a scheme (which would make it an
\* absolute or inline URL, not a path)
RelPath(P) ==
  /\ P # << >>
  /\ P[1] # "/"
  /\ ~Has(P, "?")
  /\ ~Has(P, "#")
  /\ ~HasScheme(P)

\* the paths P of which u is the relative, the root-relative or, on site s,
\* the absolute form
FormsOf(u, s) ==
  {u}
    \cup (IF StartsWith(u, <<"/">>) THEN {Tail(u)} ELSE {})
    \cup (IF StartsWith(u, s \o <<"/">>)
          THEN {SubSeq(u, Len(s) + 2, Len(u))} ELSE {})

\* C12: whenever the input URL is the relative form P, the root-relative
\* form /P or the absolute form S/P of a relative path P, normalize_url_path
\* returns Some(P).
C12_SameCanonicalPath ==
  Normalized =>
    \A P \in FormsOf(nz.url, nz.site) : RelPath(P) => nz.local_path = Some(P)

\* C12 witness: the absolute form of path a/ on the http site was
\* normalized to a/.
C12_Witness ==
  /\ nz.pc = "accepted"
  /\ nz.site = SiteHttp
  /\ nz.url = SiteHttp \o <<"/", "a", "/">>
  /\ nz.local_path = Some(<<"a", "/">>)

\* the length of the part of s before its first '/', '?' or '#'
HostLen(s) ==
  IF \E i \in 1..Len(s) : s[i] \in {"/", "?", "#"}
  THEN (CHOOSE i \in 1..Len(s) :
          s[i] \in {"/", "?", "#"} /\ \A j \in 1..(i - 1) : s[j] \notin {"/", "?", "#"}) - 1
  ELSE Len(s)

IsAbsolute(u) == StartsWith(u, HttpScheme) \/ StartsWith(u, HttpsScheme)

\* scheme and host of an absolute URL
Origin(u) ==
  LET n == IF StartsWith(u, HttpsScheme) THEN Len(HttpsScheme) ELSE Len(HttpScheme)
  IN SubSeq(u, 1, n + HostLen(SubSeq(u, n + 1, Len(u))))

\* C13: normalize_url_path returns None for a data: or blob: URL, for the
\* empty string, and for an absolute URL whose scheme and host are not the
\* site's.
C13_RejectsForeign ==
  Normalized =>
    ((\/ nz.url = << >>
      \/ StartsWith(nz.url, DataScheme)
      \/ StartsWith(nz.url, BlobScheme)
      \/ (IsAbsolute(nz.url) /\ Origin(nz.url) # nz.site))
       => nz.local_path = None)

\* the part of the input before its first '?' or '#', whichever comes first
BeforeQueryOrFragment(u) ==
  IF \E i \in 1..Len(u) : u[i] \in {"?", "#"}
  THEN SubSeq(u, 1, (CHOOSE i \in 1..Len(u) :
                       u[i] \in {"?", "#"} /\ \A j \in 1..(i - 1) : u[j] \notin {"?", "#"}) - 1)
  ELSE u

IsSuffix(s, t) == Len(s) <= Len(t) /\ SubSeq(t, Len(t) - Len(s) + 1, Len(t)) = s

\* C14: a path normalize_url_path returns is not empty, does not start with
\* '/', holds no '?' and no '#', and is an end part of the input cut before
\* its first '?' or '#': it is what the call returns for the input so cut.
C14_NoQueryNoFragment ==
  (Normalized /\ nz.local_path # None) =>
    LET p == nz.local_path[1]
    IN /\ p # << >>
       /\ p[1] # "/"
       /\ ~Has(p, "?")
       /\ ~Has(p, "#")
       /\ IsSuffix(p, BeforeQueryOrFragment(nz.url))
       /\ nz.local_path = normalize_url_path(BeforeQueryOrFragment(nz.url), nz.site)

\* C14 witness: for /a#? , where the fragment comes before the query, the
\* call returned a.
C14_Witness ==
  /\ nz.pc = "accepted"
  /\ nz.url = <<"/", "a", "#", "?">>
  /\ nz.local_path = Some(<<"a">>)

\* C15: the normalizer applied to a path it returned gives that path again.
C15_Idempotent ==
  nz.pc = "again" => nz.again = nz.local_path

\* what follows the host of a protocol-relative URL //host...
AfterHost(u) ==
  LET stripped == SubSeq(u, 3, Len(u))
  IN SubSeq(stripped, HostLen(stripped) + 1, Len(stripped))

\* the host of a protocol-relative URL
HostOf(u) == SubSeq(u, 3, 2 + HostLen(SubSeq(u, 3, Len(u))))

\* a path with its query, fragment and leading slashes removed; None when
\* nothing is left
CleanPath(r) ==
  LET t == TrimStartMatches(BeforeQueryOrFragment(r), "/")
  IN IF t = << >> THEN None ELSE Some(t)

\* C16: for a protocol-relative URL, whatever its host, the call returns
\* None when no path follows the host, and otherwise the path after the
\* host with leading slashes, query and fragment removed; this is what it
\* returns for that path given as a root-relative URL of the site.
C16_ProtocolRelative ==
  (Normalized /\ StartsWith(nz.url, SlashSlash)) =>
    LET r == AfterHost(nz.url)
    IN /\ ~StartsWith(r, <<"/">>) => nz.local_path = None
       /\ StartsWith(r, <<"/">>) => nz.local_path = CleanPath(r)
       /\ (StartsWith(r, <<"/">>) /\ ~StartsWith(r, SlashSlash)) =>
            nz.local_path = normalize_url_path(r, nz.site)

\* C16 witness: //a/s, whose host a is not the site's, was normalized to s,
\* the canonical path of the site's own /s.
C16_Witness ==
  /\ nz.pc = "accepted"
  /\ nz.url = <<"/", "/", "a", "/", "s">>
  /\ HostOf(nz.url) = <<"a">>
  /\ nz.site = WEBSITE
  /\ nz.local_path = Some(<<"s">>)
  /\ normalize_url_path(<<"/", "s">>, nz.site) = Some(<<"s">>)

\* the URL to fetch by the classification the normalizer uses: an absolute
\* URL as it is, a protocol-relative one behind https:, any other joined to
\* the site by one '/'
ClassifiedUrl(u, s) ==
  IF IsAbsolute(u) THEN u
  ELSE IF StartsWith(u, SlashSlash) THEN <<"h", "t", "t", "p", "s", ":">> \o u
  ELSE s \o <<"/">> \o TrimStartMatches(u, "/")

\* C17: for every candidate the normalizer accepts, the URL download_asset
\* requests is the one that follows from the normalizer's classification.
C17_FullUrlAgrees ==
  nz.pc \in {"built", "again"} => nz.full_url = ClassifiedUrl(nz.url, nz.site)

\* ------------------------------------------- sessions with fixed outcomes
\* a session in which the download of each candidate URL either succeeds
\* whenever it is attempted or fails whenever it is attempted
InitOrder ==
  /\ NewSession
  /\ fate \in [URLS -> {"ok", "fail"}]
  /\ nz = IdleNorm

\* the loop of scrape_page takes the candidates in any order (the Vec is
\* collected from a HashSet)
SpecOrder == InitOrder /\ [][Next]_vars

\* the canonical paths of the candidates S whose download succeeds
PathsFetched(S) ==
  { normalize_url_path(u, WEBSITE)[1] :
      u \in { v \in S : normalize_url_path(v, WEBSITE) # None /\ fate[v] = "ok" } }

\* the loop over the candidates of frame f has come to its end
AfterLoop(f) ==
  \/ fr[f].pc = "FetchAll" /\ fr[f].urls = {}
  \/ fr[f].pc \in {"MarkupDir", "MarkupWrite"}

\* C18: when the loop of a page has ended, the registry and the count are
\* given by the candidate set, the registry the loop started with and the
\* outcome of each URL alone, whatever the order the candidates were taken
\* in: the registry is the starting registry with the paths of the
\* succeeding candidates added, and the count is the number of paths added.
C18_OrderIrrelevant ==
  \A f \in Frames :
    AfterLoop(f) =>
      /\ downloaded = fr[f].start \cup PathsFetched(fr[f].cands)
      /\ fr[f].count = Cardinality(PathsFetched(fr[f].cands) \ fr[f].start)

\* C18 witness: two candidates of the first page normalize to path a, the
\* download of /a fails and that of https://s/a succeeds; the failing one
\* was taken first (two requests were made), and the loop ended with a
\* recorded and a count of one, as it does in the other order.
C18_Witness ==
  /\ AfterLoop(1)
  /\ fr[1].cands = {UrlRootA, UrlAbsA}
  /\ fate[UrlRootA] = "fail"
  /\ fate[UrlAbsA] = "ok"
  /\ reqs[PathA] = 2
  /\ fr[1].count = 1
  /\ downloaded = {PathA}

\* C19: no step removes a path from the registry: whatever a download_asset
\* call, a scrape_page call, total_assets or finish does, every member of
\* the registry before the step is a member after it.
C19_RegistryOnlyGrows ==
  [][downloaded \subseteq downloaded']_vars

\* C19 witness: a path was recorded, after that a call for another path
\* failed and a page ended in Err, and the session was finished: the path
\* is still a member and finish reported it.
C19_Witness ==
  /\ session = "finished"
  /\ total = 1
  /\ downloaded = {PathA}
  /\ reqs[PathP] >= 1
  /\ \E f \in Frames : fr[f].pc = "Err"

\* C20: no download_asset call writes its bytes at the directory path or at
\* the index.html path of a page that is being scraped.
C20_AssetsApartFromMarkup ==
  \A f \in Frames :
    Active(f) =>
      /\ fr[f].page \notin written
      /\ MarkupPath(fr[f].page) \notin written

====
